---- MODULE Spec2Model ----
(***************************************************************************)
(* Model of the SCRAMBLER_API core: the profiling engine                   *)
(* (app/services/profile.py) and the synthesis engine                      *)
(* (app/services/synth.py).                                                *)
(*                                                                         *)
(* Text is modelled as a sequence of one-character strings, so that the    *)
(* classifiers and the renderers work on characters as the code does.      *)
(* Numbers that the code holds as float/Decimal are held in thousandths    *)
(* (an integer v stands for v/1000), which is exact for every numeral of   *)
(* at most three fractional digits, the only ones the bounded inputs use.  *)
(***************************************************************************)
EXTENDS Integers, Sequences, FiniteSets, TLC

\* Python's None: for an optional string the string None, for an optional number
\* or datetime the empty tuple, the value v itself being held as <<v>> (a number)
\* or as the tuple <<Y, m, d, H, M, S>> (a datetime).
None == "None"

NoValue == <<>>

Some(v) == <<v>>

(***************************************************************************)
(* Characters and strings                                                  *)
(***************************************************************************)
DigitChars == <<"0", "1", "2", "3", "4", "5", "6", "7", "8", "9">>

IsDigit(c) == \E i \in 1..10 : DigitChars[i] = c

DigitVal(c) == (CHOOSE i \in 1..10 : DigitChars[i] = c) - 1

UpperChars == <<"A", "B", "C", "D", "E", "F", "G", "H", "I", "J", "K", "L", "M",
                "N", "O", "P", "Q", "R", "S", "T", "U", "V", "W", "X", "Y", "Z">>

LowerChars == <<"a", "b", "c", "d", "e", "f", "g", "h", "i", "j", "k", "l", "m",
                "n", "o", "p", "q", "r", "s", "t", "u", "v", "w", "x", "y", "z">>

\* str.lower(), one character
LowerChar(c) ==
    IF \E i \in 1..26 : UpperChars[i] = c
    THEN LowerChars[CHOOSE i \in 1..26 : UpperChars[i] = c]
    ELSE c

\* str.lower()
Lower(s) == [i \in 1..Len(s) |-> LowerChar(s[i])]

IsSpace(c) == c \in {" ", "\t", "\n", "\r"}

RECURSIVE LStrip(_)
LStrip(s) == IF s # <<>> /\ IsSpace(Head(s)) THEN LStrip(Tail(s)) ELSE s

RECURSIVE RStrip(_)
RStrip(s) ==
    IF s # <<>> /\ IsSpace(s[Len(s)]) THEN RStrip(SubSeq(s, 1, Len(s) - 1)) ELSE s

\* str.strip()
Strip(s) == RStrip(LStrip(s))

\* c in s
Contains(s, c) == \E i \in 1..Len(s) : s[i] = c

\* str.replace(old, new) for a one-character old and a new of length 0 or 1
RECURSIVE Replace(_, _, _)
Replace(s, old, new) ==
    IF s = <<>> THEN <<>>
    ELSE (IF Head(s) = old THEN new ELSE <<Head(s)>>) \o Replace(Tail(s), old, new)

AllDigits(s) == s # <<>> /\ \A i \in 1..Len(s) : IsDigit(s[i])

\* the value of a run of digits
RECURSIVE DigitsVal(_)
DigitsVal(s) ==
    IF s = <<>> THEN 0
    ELSE DigitsVal(SubSeq(s, 1, Len(s) - 1)) * 10 + DigitVal(s[Len(s)])

\* a numeral without its sign, and the sign
HasSign(s) == s # <<>> /\ Head(s) \in {"+", "-"}

Unsigned(s) == IF HasSign(s) THEN Tail(s) ELSE s

SignOf(s) == IF s # <<>> /\ Head(s) = "-" THEN -1 ELSE 1

\* int(txt) succeeds: an optional sign and a run of digits (the caller strips)
IsIntLiteral(s) == AllDigits(Unsigned(s))

IntLiteralVal(s) == SignOf(s) * DigitsVal(Unsigned(s))

\* position of the first c in s, 0 if none
FirstIndex(s, c) ==
    IF Contains(s, c) THEN CHOOSE i \in 1..Len(s) : s[i] = c /\ \A j \in 1..(i - 1) : s[j] # c
    ELSE 0

\* float(txt) / Decimal(txt) succeed on a plain numeral: sign, digits, at most one
\* point with a digit on at least one side of it
IsPlainNumeral(s) ==
    LET u == Unsigned(s)
        p == FirstIndex(u, ".")
        ip == IF p = 0 THEN u ELSE SubSeq(u, 1, p - 1)
        fp == IF p = 0 THEN <<>> ELSE SubSeq(u, p + 1, Len(u))
    IN  /\ u # <<>>
        /\ \A i \in 1..Len(ip) : IsDigit(ip[i])
        /\ \A i \in 1..Len(fp) : IsDigit(fp[i])
        /\ Len(ip) + Len(fp) > 0

\* the value of a plain numeral in thousandths (fraction cut after three digits)
PlainNumeralVal(s) ==
    LET u == Unsigned(s)
        p == FirstIndex(u, ".")
        ip == IF p = 0 THEN u ELSE SubSeq(u, 1, p - 1)
        fp == IF p = 0 THEN <<>> ELSE SubSeq(u, p + 1, Len(u))
        f3 == SubSeq(fp \o <<"0", "0", "0">>, 1, 3)
    IN  SignOf(s) * (DigitsVal(ip) * 1000 + DigitsVal(f3))

(***************************************************************************)
(* TypeClassifier: parse_datetime, detect_decimal_separator,               *)
(* normalize_numeric, detect_type                                          *)
(***************************************************************************)
FieldTypes == <<"string", "integer", "float", "decimal", "boolean", "date", "datetime", "empty">>

FieldTypeSet == {FieldTypes[i] : i \in 1..Len(FieldTypes)}

IsLeap(y) == (y % 4 = 0 /\ y % 100 # 0) \/ y % 400 = 0

DaysInMonth(y, m) ==
    IF m = 2 THEN (IF IsLeap(y) THEN 29 ELSE 28)
    ELSE IF m \in {4, 6, 9, 11} THEN 30 ELSE 31

\* the directives of the formats, and the widths strptime tries for each, in order
Directives == {"%Y", "%m", "%d", "%H", "%M", "%S"}

DirectiveWidths(tok) == IF tok = "%Y" THEN <<4>> ELSE <<2, 1>>

\* the characters at pos..pos+w-1 are a value the directive accepts
DirectiveOk(tok, txt, pos, w) ==
    /\ pos + w - 1 <= Len(txt)
    /\ LET sub == SubSeq(txt, pos, pos + w - 1)
           v == DigitsVal(sub)
       IN  /\ AllDigits(sub)
           /\ CASE tok = "%Y" -> TRUE
                [] tok = "%m" -> v \in 1..12
                [] tok = "%d" -> v \in 1..31
                [] tok = "%H" -> w = 1 \/ v \in 0..23
                [] tok = "%M" -> w = 1 \/ v \in 0..59
                [] OTHER      -> w = 1 \/ v \in 0..61

\* the fields a format reads ("ok" is 1 while the text matches), and the failed match
MidnightFields ==
    [t \in Directives \cup {"ok"} |-> IF t \in {"%Y", "%m", "%d", "ok"} THEN 1 ELSE 0]

NoMatch == [t \in Directives \cup {"ok"} |-> 0]

Matched(f) == f["ok"] = 1

\* match txt from pos against the rest of a format; acc holds the fields read so far
RECURSIVE StrpFrom(_, _, _, _)
StrpFrom(txt, pos, fmt, acc) ==
    IF fmt = <<>> THEN (IF pos = Len(txt) + 1 THEN acc ELSE NoMatch)
    ELSE LET tok == Head(fmt)
             rest == Tail(fmt)
             Try(w) == IF DirectiveOk(tok, txt, pos, w)
                       THEN StrpFrom(txt, pos + w, rest,
                                     [acc EXCEPT ![tok] = DigitsVal(SubSeq(txt, pos, pos + w - 1))])
                       ELSE NoMatch
             ws == DirectiveWidths(tok)
         IN  IF tok \in Directives
             THEN (IF Matched(Try(ws[1])) \/ Len(ws) = 1 THEN Try(ws[1]) ELSE Try(ws[2]))
             ELSE IF tok = " "
             THEN (IF pos <= Len(txt) /\ IsSpace(txt[pos])
                   THEN (IF Matched(StrpFrom(txt, pos + 1, rest, acc))
                         THEN StrpFrom(txt, pos + 1, rest, acc)
                         ELSE StrpFrom(txt, pos + 1, fmt, acc))
                   ELSE NoMatch)
             ELSE IF pos <= Len(txt) /\ txt[pos] = tok
             THEN StrpFrom(txt, pos + 1, rest, acc)
             ELSE NoMatch

\* datetime(...) accepts the fields
ValidDateTime(f) ==
    /\ f["%Y"] >= 1
    /\ f["%d"] <= DaysInMonth(f["%Y"], f["%m"])
    /\ f["%S"] <= 59

\* datetime.strptime(txt, fmt): a datetime <<Y, m, d, H, M, S>>, or NoValue when it raises
Strptime(txt, fmt) ==
    LET f == StrpFrom(txt, 1, fmt, MidnightFields)
    IN  IF Matched(f) /\ ValidDateTime(f)
        THEN <<f["%Y"], f["%m"], f["%d"], f["%H"], f["%M"], f["%S"]>>
        ELSE NoValue

DateFormats ==
    << <<"%Y", "-", "%m", "-", "%d", "T", "%H", ":", "%M", ":", "%S">>,
       <<"%Y", "-", "%m", "-", "%d", " ", "%H", ":", "%M", ":", "%S">>,
       <<"%Y", "-", "%m", "-", "%d">>,
       <<"%Y", "/", "%m", "/", "%d">>,
       <<"%d", "/", "%m", "/", "%Y">>,
       <<"%m", "/", "%d", "/", "%Y">> >>

\* datetime.fromisoformat(txt), for the forms every Python 3 accepts: YYYY-MM-DD alone
\* or followed by any one separator character and HH, HH:MM or HH:MM:SS, two digits
\* each (fractions of a second and UTC offsets are outside the alphabet of the
\* bounded inputs)
FromIsoFormat(txt) ==
    LET TwoDigits(p) == p + 1 <= Len(txt) /\ AllDigits(SubSeq(txt, p, p + 1))
        Val(p, w) == DigitsVal(SubSeq(txt, p, p + w - 1))
        dateOk == /\ Len(txt) >= 10
                  /\ AllDigits(SubSeq(txt, 1, 4)) /\ txt[5] = "-" /\ TwoDigits(6)
                  /\ txt[8] = "-" /\ TwoDigits(9)
        hourOk == Len(txt) >= 13 /\ TwoDigits(12)
        minOk == hourOk /\ Len(txt) >= 16 /\ txt[14] = ":" /\ TwoDigits(15)
        secOk == minOk /\ Len(txt) = 19 /\ txt[17] = ":" /\ TwoDigits(18)
        shapeOk == \/ Len(txt) = 10
                   \/ Len(txt) = 13 /\ hourOk
                   \/ Len(txt) = 16 /\ minOk
                   \/ secOk
        f == [MidnightFields EXCEPT !["%Y"] = Val(1, 4), !["%m"] = Val(6, 2),
                                    !["%d"] = Val(9, 2),
                                    !["%H"] = IF hourOk THEN Val(12, 2) ELSE 0,
                                    !["%M"] = IF minOk THEN Val(15, 2) ELSE 0,
                                    !["%S"] = IF secOk THEN Val(18, 2) ELSE 0]
    IN  IF dateOk /\ shapeOk
           /\ f["%m"] \in 1..12 /\ f["%d"] >= 1 /\ f["%H"] <= 23 /\ f["%M"] <= 59
           /\ ValidDateTime(f)
        THEN <<f["%Y"], f["%m"], f["%d"], f["%H"], f["%M"], f["%S"]>>
        ELSE NoValue

RECURSIVE FirstFormat(_, _)
FirstFormat(txt, k) ==
    IF k > Len(DateFormats) THEN FromIsoFormat(txt)
    ELSE IF Strptime(txt, DateFormats[k]) # NoValue THEN Strptime(txt, DateFormats[k])
    ELSE FirstFormat(txt, k + 1)

\* parse_datetime(raw): a datetime <<Y, m, d, H, M, S>> or NoValue
parse_datetime(raw) ==
    LET txt == Strip(raw)
    IN  IF txt = <<>> THEN NoValue ELSE FirstFormat(txt, 1)

\* dt.time() != datetime.min.time()
HasTimeOfDay(dt) == <<dt[4], dt[5], dt[6]>> # <<0, 0, 0>>

\* dt1 < dt2 on datetimes
RECURSIVE LexLess(_, _)
LexLess(a, b) ==
    IF a = <<>> \/ b = <<>> THEN FALSE
    ELSE IF Head(a) # Head(b) THEN Head(a) < Head(b)
    ELSE LexLess(Tail(a), Tail(b))

\* the runs between the separators . and , of s
RECURSIVE SplitOnSeparators(_, _)
SplitOnSeparators(s, cur) ==
    IF s = <<>> THEN <<cur>>
    ELSE IF Head(s) \in {".", ","} THEN <<cur>> \o SplitOnSeparators(Tail(s), <<>>)
    ELSE SplitOnSeparators(Tail(s), Append(cur, Head(s)))

\* detect_decimal_separator(raw): ",", "." or None
detect_decimal_separator(raw) ==
    LET txt == Strip(raw)
        segs == SplitOnSeparators(Unsigned(txt), <<>>)
        grouped == Len(segs) >= 2 /\ Len(segs[1]) <= 3      \* ^[+-]?\d{1,3}(?:[.,]\d+)+$
        single == Len(segs) = 2                             \* ^[+-]?\d+[.,]\d+$
    IN  IF txt # <<>> /\ (\A i \in 1..Len(segs) : AllDigits(segs[i])) /\ (grouped \/ single)
        THEN (IF Contains(txt, ",") THEN "," ELSE ".")
        ELSE None

\* the text with the detected separator made the decimal point and the other dropped
WithDecimalPoint(txt, sep) ==
    IF sep = "," THEN Replace(Replace(txt, ".", <<>>), ",", <<".">>)
    ELSE IF sep = "." THEN Replace(txt, ",", <<>>)
    ELSE txt

\* normalize_numeric(raw): the value in thousandths, or NoValue
normalize_numeric(raw) ==
    LET txt == Strip(raw)
        candidate == WithDecimalPoint(txt, detect_decimal_separator(txt))
    IN  IF txt = <<>> THEN NoValue
        ELSE IF IsPlainNumeral(candidate) THEN Some(PlainNumeralVal(candidate))
        ELSE IF IsPlainNumeral(txt) THEN Some(PlainNumeralVal(txt))
        ELSE NoValue

BooleanWords == { <<"t", "r", "u", "e">>, <<"f", "a", "l", "s", "e">>, <<"1">>, <<"0">>,
                  <<"y", "e", "s">>, <<"n", "o">> }

\* the words float() accepts besides numerals
FloatWords == { <<"n", "a", "n">>, <<"i", "n", "f">>, <<"i", "n", "f", "i", "n", "i", "t", "y">> }

\* detect_type(raw)
detect_type(raw) ==
    LET lower == Lower(Strip(raw))
        dt == parse_datetime(raw)
        sep == detect_decimal_separator(raw)
        normalized == IF sep = "," THEN WithDecimalPoint(Strip(raw), ",")
                      ELSE Replace(Strip(raw), ",", <<>>)
    IN  IF raw = <<>> THEN "empty"
        ELSE IF lower \in BooleanWords THEN "boolean"
        ELSE IF dt # NoValue THEN (IF HasTimeOfDay(dt) THEN "datetime" ELSE "date")
        ELSE IF IsIntLiteral(lower) THEN "integer"
        ELSE IF sep # None /\ IsPlainNumeral(normalized) THEN "decimal"
        ELSE IF IsPlainNumeral(lower) /\ (Contains(lower, ".") \/ Contains(lower, "e") \/ Contains(lower, ","))
             THEN "decimal"
        ELSE IF IsPlainNumeral(lower) \/ Unsigned(lower) \in FloatWords THEN "float"
        ELSE "string"

(***************************************************************************)
(* Ordering of strings, and the rendering of numbers and dates             *)
(***************************************************************************)
\* the characters of the model in code-point order
CodePoints ==
    <<"\t", "\n", "\r", " ", "!", "\"", "#", "$", "%", "&", "*", "+", ",", "-", ".", "/",
      "0", "1", "2", "3", "4", "5", "6", "7", "8", "9", ":", ";", "=", "@",
      "A", "B", "C", "D", "E", "F", "G", "H", "I", "J", "K", "L", "M",
      "N", "O", "P", "Q", "R", "S", "T", "U", "V", "W", "X", "Y", "Z", "_",
      "a", "b", "c", "d", "e", "f", "g", "h", "i", "j", "k", "l", "m",
      "n", "o", "p", "q", "r", "s", "t", "u", "v", "w", "x", "y", "z", "|">>

\* ord(c)
Ord(c) == CHOOSE i \in 1..Len(CodePoints) : CodePoints[i] = c

\* s < t on strings
RECURSIVE StrLess(_, _)
StrLess(s, t) ==
    IF t = <<>> THEN FALSE
    ELSE IF s = <<>> THEN TRUE
    ELSE IF Head(s) # Head(t) THEN Ord(Head(s)) < Ord(Head(t))
    ELSE StrLess(Tail(s), Tail(t))

\* sorted(list(S)) for a set S of strings
RECURSIVE Sorted(_)
Sorted(S) ==
    IF S = {} THEN <<>>
    ELSE LET least == CHOOSE x \in S : \A y \in S \ {x} : StrLess(x, y)
         IN  <<least>> \o Sorted(S \ {least})

\* str(n) for n >= 0
RECURSIVE NatToStr(_)
NatToStr(n) ==
    IF n < 10 THEN <<DigitChars[n + 1]>>
    ELSE NatToStr(n \div 10) \o <<DigitChars[(n % 10) + 1]>>

\* str(n)
IntToStr(n) == IF n < 0 THEN <<"-">> \o NatToStr(-n) ELSE NatToStr(n)

Pad2(n) == IF n < 10 THEN <<"0">> \o NatToStr(n) ELSE NatToStr(n)

Pad4(n) ==
    IF n < 10 THEN <<"0", "0", "0">> \o NatToStr(n)
    ELSE IF n < 100 THEN <<"0", "0">> \o NatToStr(n)
    ELSE IF n < 1000 THEN <<"0">> \o NatToStr(n)
    ELSE NatToStr(n)

\* date.isoformat()
IsoDate(dt) == Pad4(dt[1]) \o <<"-">> \o Pad2(dt[2]) \o <<"-">> \o Pad2(dt[3])

\* datetime.isoformat(sep="T", timespec="seconds"), also datetime.isoformat() of a
\* datetime without microseconds
IsoDateTime(dt) ==
    IsoDate(dt) \o <<"T">> \o Pad2(dt[4]) \o <<":">> \o Pad2(dt[5]) \o <<":">> \o Pad2(dt[6])

(***************************************************************************)
(* Limits (app/config.py) and the bounds of the model.  The three limits   *)
(* of the program are scaled down, keeping their order                     *)
(* 0 < FAST_SAMPLE_ROWS < MAX_ROWS: the code compares row numbers and set  *)
(* sizes with them and uses them in no other way.                          *)
(***************************************************************************)
\* config.MAX_ROWS (100_000 in the source)
MAX_ROWS == 3

\* config.FAST_SAMPLE_ROWS (5_000 in the source)
FAST_SAMPLE_ROWS == 2

\* the cardinality ceiling of FieldStats.allowed_values (50 in the source)
ALLOWED_VALUES_CAP == 2

\* a text holds at most MAX_ROWS + MaxExtraRows data rows
MaxExtraRows == 1

(***************************************************************************)
(* State.  The profiling engine and the synthesis engine share nothing:    *)
(* each specification below runs one of them and leaves the state of the   *)
(* other as it is.                                                         *)
(***************************************************************************)
\* profile_from_text
VARIABLES
    headers,             \* reader.fieldnames or []
    parse_mode,          \* "fast" or "strict"
    text_rows,           \* the number of data rows of the text
    rows,                \* the data rows fed to the accumulators so far, in order
    idx,                 \* the loop variable; 0 while it is unbound
    stats,               \* header name -> FieldStats
    decimal_separators,  \* the separators seen
    pc,                  \* "loop", "finalize", "returned", "raised" ("idle": no run)
    result,              \* the ProfileResult returned, NoResult before
    error                \* the exception raised, None if none

pvars == <<headers, parse_mode, text_rows, rows, idx, stats, decimal_separators, pc,
           result, error>>

\* generate_rows / profile_to_csv and the module-level state they use
VARIABLES
    profile,     \* the ProfileResult the calls are made on
    request,     \* the rows and decimal_separator arguments the calls are made with
    rng,         \* the state of the module-level random generator
    now,         \* the wall clock, an instant
    ticks,       \* the number of times the clock has advanced
    call,        \* call -> its arguments, position and output
    overlapped   \* a call has started while the other was running

svars == <<profile, request, rng, now, ticks, call, overlapped>>

vars == <<pvars, svars>>

(***************************************************************************)
(* The profiling engine: FieldStats, pick_final_type, profile_from_text    *)
(***************************************************************************)

\* the header rows of the bounded texts: none, one column, two columns, a repeated name
HeaderRows == { <<>>, << <<"a">> >>, << <<"a">>, <<"b">> >>, << <<"a">>, <<"a">> >> }

\* the raw cells of the bounded texts: empty, boolean, integer, string, decimal, date
Cells == { <<>>, <<"1">>, <<"5">>, <<"a", "b">>, <<"x">>, <<"1", ".", "5">>,
           <<"2", "0", "2", "4", "-", "0", "1", "-", "0", "2">> }

\* the second column draws from fewer cells
CellsAt(k) == IF k = 1 THEN Cells ELSE { <<>>, <<"7">>, <<"a", "b">> }

\* the rows csv.reader can yield under a header row h (a short row reads as empty cells)
RowsUnder(h) == { r \in [1..Len(h) -> Cells] : \A k \in 1..Len(h) : r[k] \in CellsAt(k) }

\* FieldStats(name=h)
NewFieldStats ==
    [ type_counts    |-> [t \in FieldTypeSet |-> 0],
      max_len        |-> 0,
      min_len        |-> NoValue,
      min_val        |-> NoValue,
      max_val        |-> NoValue,
      allowed_values |-> {},
      nulls          |-> 0,
      min_date       |-> NoValue,
      max_date       |-> NoValue ]

Min(a, b) == IF a <= b THEN a ELSE b

Max(a, b) == IF a >= b THEN a ELSE b

\* x if cur is None else min(cur, x), on optional numbers
OptMin(cur, x) == IF cur = NoValue THEN Some(x) ELSE Some(Min(cur[1], x))

OptMax(cur, x) == IF cur = NoValue THEN Some(x) ELSE Some(Max(cur[1], x))

\* the same on optional datetimes
OptMinDate(cur, dt) == IF cur = NoValue \/ LexLess(dt, cur) THEN dt ELSE cur

OptMaxDate(cur, dt) == IF cur = NoValue \/ LexLess(cur, dt) THEN dt ELSE cur

\* the set keeps a new value only while it holds fewer than the ceiling
AddAllowed(S, value) == IF Cardinality(S) < ALLOWED_VALUES_CAP THEN S \cup {value} ELSE S

\* FieldStats.register(value, detected_type)
register(fs, value, detected_type) ==
    LET counted == [fs EXCEPT !.type_counts[detected_type] = @ + 1]
        numeric == normalize_numeric(value)
        dt == parse_datetime(value)
        isNum == detected_type \in {"integer", "float", "decimal"} /\ numeric # NoValue
        isDate == detected_type \in {"date", "datetime"} /\ dt # NoValue
    IN  IF value = <<>> THEN [counted EXCEPT !.nulls = @ + 1]
        ELSE [counted EXCEPT
                !.max_len = Max(@, Len(value)),
                !.min_len = OptMin(@, Len(value)),
                !.min_val = IF isNum THEN OptMin(@, numeric[1]) ELSE @,
                !.max_val = IF isNum THEN OptMax(@, numeric[1]) ELSE @,
                !.min_date = IF isDate THEN OptMinDate(@, dt) ELSE @,
                !.max_date = IF isDate THEN OptMaxDate(@, dt) ELSE @,
                !.allowed_values = AddAllowed(@, value)]

\* row.get(header, "") or "": the dict of a row keeps, for a repeated name, its last cell
RowGet(h, row, header) ==
    LET ks == {k \in 1..Len(h) : h[k] = header}
    IN  IF ks = {} THEN <<>> ELSE row[CHOOSE k \in ks : \A j \in ks : j <= k]

\* the body of the row loop, "for header in headers", from position k on
RECURSIVE RegisterRow(_, _, _, _)
RegisterRow(st, h, row, k) ==
    IF k > Len(h) THEN st
    ELSE LET raw == RowGet(h, row, h[k])
         IN  RegisterRow([st EXCEPT ![h[k]] = register(@, raw, detect_type(raw))], h, row, k + 1)

\* the separators the cells of a row add to decimal_separators
RowSeparators(h, row) ==
    { detect_decimal_separator(RowGet(h, row, h[k])) : k \in 1..Len(h) } \ {None}

\* the types of non_zero, in the order of the dict type_counts, which is created
\* with every FieldType as key, in declaration order
NonZeroTypes(type_counts) ==
    SelectSeq(FieldTypes, LAMBDA t : type_counts[t] > 0 /\ t # "empty")

\* sorted(non_zero.items(), key=count, reverse=True)[0][0]: the sort is stable, so
\* among the types of greatest count the first of non_zero stays first
FirstOfGreatestCount(type_counts, nz) ==
    nz[CHOOSE i \in 1..Len(nz) :
          /\ \A j \in 1..Len(nz) : type_counts[nz[j]] <= type_counts[nz[i]]
          /\ \A j \in 1..(i - 1) : type_counts[nz[j]] < type_counts[nz[i]]]

\* pick_final_type(type_counts)
pick_final_type(type_counts) ==
    LET nz == NonZeroTypes(type_counts)
    IN  IF nz = <<>> THEN "empty" ELSE FirstOfGreatestCount(type_counts, nz)

\* sample_limit: FAST_SAMPLE_ROWS in fast mode, None (0 here) in strict mode
sample_limit == IF parse_mode = "fast" THEN FAST_SAMPLE_ROWS ELSE 0

NoResult == [row_count |-> -1, fields |-> <<>>, decimal_separator |-> None]

\* the entry of profile_from_text on one of the bounded texts, in either mode; no
\* synthesis call is made
Init ==
    /\ headers \in HeaderRows
    /\ parse_mode \in {"fast", "strict"}
    /\ text_rows \in 0..(MAX_ROWS + MaxExtraRows)
    /\ rows = <<>>
    /\ idx = 0
    /\ stats = [h \in {headers[k] : k \in 1..Len(headers)} |-> NewFieldStats]
    /\ decimal_separators = {}
    /\ pc = "loop"
    /\ result = NoResult
    /\ error = None
    /\ profile = [fields |-> <<>>, delimiter |-> ",", decimal_separator |-> "."]
    /\ request = [rows |-> 0, decimal_separator |-> None]
    /\ rng = 0 /\ now = <<1, 0>> /\ ticks = 0 /\ overlapped = FALSE
    /\ call = [c \in {"A", "B"} |->
                  [pc |-> "idle", rows |-> 0, seed |-> NoValue, decimal_separator |-> None,
                   generated |-> <<>>, data |-> <<>>]]

\* the reader yields row idx + 1 and it is beyond the hard cap: raise
RaiseRowLimit ==
    /\ pc = "loop" /\ idx < text_rows
    /\ idx + 1 > MAX_ROWS
    /\ idx' = idx + 1
    /\ pc' = "raised"
    /\ error' = "RowLimitExceeded"
    /\ UNCHANGED svars
    /\ UNCHANGED <<headers, parse_mode, text_rows, rows, stats, decimal_separators, result>>

\* the reader yields row idx + 1 and it is beyond the sample cap: break
BreakAtSampleLimit ==
    /\ pc = "loop" /\ idx < text_rows
    /\ idx + 1 <= MAX_ROWS
    /\ sample_limit # 0 /\ idx + 1 > sample_limit
    /\ idx' = idx + 1
    /\ pc' = "finalize"
    /\ UNCHANGED svars
    /\ UNCHANGED <<headers, parse_mode, text_rows, rows, stats, decimal_separators, result,
                   error>>

\* the reader yields row idx + 1 and every column registers its cell
RegisterNextRow ==
    /\ pc = "loop" /\ idx < text_rows
    /\ idx + 1 <= MAX_ROWS
    /\ ~(sample_limit # 0 /\ idx + 1 > sample_limit)
    /\ \E row \in RowsUnder(headers) :
          /\ rows' = Append(rows, row)
          /\ stats' = RegisterRow(stats, headers, row, 1)
          /\ decimal_separators' = decimal_separators \cup RowSeparators(headers, row)
    /\ idx' = idx + 1
    /\ UNCHANGED svars
    /\ UNCHANGED <<headers, parse_mode, text_rows, pc, result, error>>

\* the reader is exhausted
EndOfRows ==
    /\ pc = "loop" /\ idx = text_rows
    /\ pc' = "finalize"
    /\ UNCHANGED svars
    /\ UNCHANGED <<headers, parse_mode, text_rows, rows, idx, stats, decimal_separators,
                   result, error>>

\* min(idx if 'idx' in locals() else 0, sample_limit or idx)
total_rows == Min(idx, IF sample_limit # 0 THEN sample_limit ELSE idx)

\* "sample_limit or idx" reads idx, which no iteration has bound
IdxReadUnbound == idx = 0 /\ sample_limit = 0

\* the FieldConstraint of a header
Constraint(header) ==
    LET fs == stats[header]
    IN  [ name           |-> header,
          type           |-> pick_final_type(fs.type_counts),
          nullable       |-> fs.nulls > 0,
          min_length     |-> fs.min_len,
          max_length     |-> Some(fs.max_len),
          min_value      |-> fs.min_val,
          max_value      |-> fs.max_val,
          allowed_values |-> IF fs.allowed_values # {}
                                /\ Cardinality(fs.allowed_values) <= ALLOWED_VALUES_CAP
                             THEN Sorted(fs.allowed_values) ELSE <<>>,
          null_fraction  |-> IF total_rows # 0
                             THEN [num |-> fs.nulls, den |-> total_rows]
                             ELSE [num |-> 0, den |-> 1],
          date_min       |-> IF fs.min_date # NoValue THEN IsoDateTime(fs.min_date) ELSE <<>>,
          date_max       |-> IF fs.max_date # NoValue THEN IsoDateTime(fs.max_date) ELSE <<>> ]

\* Field(0, ge=0, le=1) accepts the null_fraction
NullFractionValid(c) == 0 <= c.null_fraction.num /\ c.null_fraction.num <= c.null_fraction.den

AllConstraintsValid == \A k \in 1..Len(headers) : NullFractionValid(Constraint(headers[k]))

\* total_rows cannot be computed: UnboundLocalError
FinalizeUnbound ==
    /\ pc = "finalize"
    /\ IdxReadUnbound
    /\ pc' = "raised"
    /\ error' = "UnboundLocalError"
    /\ UNCHANGED svars
    /\ UNCHANGED <<headers, parse_mode, text_rows, rows, idx, stats, decimal_separators,
                   result>>

\* a FieldConstraint is refused by its validation: ValidationError
FinalizeInvalid ==
    /\ pc = "finalize"
    /\ ~IdxReadUnbound
    /\ ~AllConstraintsValid
    /\ pc' = "raised"
    /\ error' = "ValidationError"
    /\ UNCHANGED svars
    /\ UNCHANGED <<headers, parse_mode, text_rows, rows, idx, stats, decimal_separators,
                   result>>

\* the ProfileResult is built and returned
FinalizeReturn ==
    /\ pc = "finalize"
    /\ ~IdxReadUnbound
    /\ AllConstraintsValid
    /\ result' = [ row_count |-> total_rows,
                   fields |-> [k \in 1..Len(headers) |-> Constraint(headers[k])],
                   decimal_separator |->
                       IF "," \in decimal_separators /\ "." \notin decimal_separators
                       THEN "," ELSE "." ]
    /\ pc' = "returned"
    /\ UNCHANGED svars
    /\ UNCHANGED <<headers, parse_mode, text_rows, rows, idx, stats, decimal_separators,
                   error>>

Next ==
    \/ RaiseRowLimit
    \/ BreakAtSampleLimit
    \/ RegisterNextRow
    \/ EndOfRows
    \/ FinalizeUnbound
    \/ FinalizeInvalid
    \/ FinalizeReturn


(***************************************************************************)
(* The random stream.  The module-level generator of Python's random is    *)
(* one state shared by every caller; it is modelled by a generator of      *)
(* RngMod states, each primitive reading the state and advancing it once   *)
(* per value drawn.                                                        *)
(***************************************************************************)
RngMod == 16

RngStates == 0..(RngMod - 1)

\* the state after one value has been drawn
Step(s) == (5 * s + 3) % RngMod

\* random.seed(seed)
Seeded(seed) == seed % RngMod

\* random.random() < num/den, random() being s/RngMod
RandomBelow(s, num, den) == s * den < num * RngMod

\* random.randint(a, b)
RandInt(a, b, s) == a + (s * (b - a + 1)) \div RngMod

\* random.choice(seq)
Choice(seq, s) == seq[(s * Len(seq)) \div RngMod + 1]

\* random.uniform(a, b), in thousandths
Uniform(a, b, s) == a + ((b - a) * s) \div RngMod

\* a value drawn and the state it leaves
Drawn(v, s) == [val |-> v, rng |-> s]

(***************************************************************************)
(* The calendar: datetimes as <<day ordinal, second of the day>>           *)
(***************************************************************************)
DaysBeforeYear(y) == 365 * (y - 1) + (y - 1) \div 4 - (y - 1) \div 100 + (y - 1) \div 400

RECURSIVE DaysBeforeMonth(_, _)
DaysBeforeMonth(y, m) == IF m = 1 THEN 0 ELSE DaysBeforeMonth(y, m - 1) + DaysInMonth(y, m - 1)

\* the instant of a datetime <<Y, m, d, H, M, S>>
Instant(dt) ==
    << DaysBeforeYear(dt[1]) + DaysBeforeMonth(dt[1], dt[2]) + dt[3],
       dt[4] * 3600 + dt[5] * 60 + dt[6] >>

\* the datetime <<Y, m, d, H, M, S>> of an instant
DateTimeOf(t) ==
    LET y == CHOOSE yy \in (t[1] \div 366 + 1)..(t[1] \div 365 + 1) :
                 DaysBeforeYear(yy) < t[1] /\ t[1] <= DaysBeforeYear(yy + 1)
        dayOfYear == t[1] - DaysBeforeYear(y)
        m == CHOOSE mm \in 1..12 :
                 DaysBeforeMonth(y, mm) < dayOfYear
                 /\ dayOfYear <= DaysBeforeMonth(y, mm) + DaysInMonth(y, mm)
    IN  << y, m, dayOfYear - DaysBeforeMonth(y, m),
           t[2] \div 3600, (t[2] % 3600) \div 60, t[2] % 60 >>

\* t + timedelta(seconds=n), n >= 0
PlusSeconds(t, n) == << t[1] + (t[2] + n) \div 86400, (t[2] + n) % 86400 >>

\* t + timedelta(days=n)
PlusDays(t, n) == << t[1] + n, t[2] >>

\* int((t2 - t1).total_seconds())
SecondsBetween(t1, t2) == (t2[1] - t1[1]) * 86400 + (t2[2] - t1[2])

(***************************************************************************)
(* ValueGenerator: _null_probability, _parsed_allowed_numbers,             *)
(* _scrambled_token, _mutate_string, _generate_value                       *)
(***************************************************************************)
\* string.ascii_letters + string.digits + "_-+=@#%&$!*"
Alphabet ==
    LowerChars \o UpperChars \o DigitChars
        \o <<"_", "-", "+", "=", "@", "#", "%", "&", "$", "!", "*">>

\* min(max(null_fraction, 0.0), 0.9), as a fraction
null_probability(c) ==
    IF c.null_fraction.num < 0 THEN [num |-> 0, den |-> 1]
    ELSE IF c.null_fraction.num * 10 > 9 * c.null_fraction.den THEN [num |-> 9, den |-> 10]
    ELSE c.null_fraction

\* _parsed_allowed_numbers(allowed, int): the allowed values int() accepts, parsed
AllowedInts(allowed) ==
    LET ok == SelectSeq(allowed, LAMBDA v : IsIntLiteral(Strip(v)))
    IN  [i \in 1..Len(ok) |-> IntLiteralVal(Strip(ok[i]))]

\* _parsed_allowed_numbers(allowed, float) and (allowed, Decimal), in thousandths
AllowedNumbers(allowed) ==
    LET ok == SelectSeq(allowed, LAMBDA v : IsPlainNumeral(Strip(v)))
    IN  [i \in 1..Len(ok) |-> PlainNumeralVal(Strip(ok[i]))]

\* "x or default" on an optional number: None and 0 give the default
OrDefault(opt, default) == IF opt = NoValue \/ opt[1] = 0 THEN default ELSE opt[1]

\* int(x) of a number held in thousandths
TruncToInt(v) == IF v >= 0 THEN v \div 1000 ELSE -((-v) \div 1000)

\* f"{x:.3f}" and format(d.quantize(Decimal("0.001")), "f")
Format3(v) ==
    LET a == IF v < 0 THEN -v ELSE v
        frac == a % 1000
    IN  (IF v < 0 THEN <<"-">> ELSE <<>>) \o NatToStr(a \div 1000) \o <<".">>
        \o <<DigitChars[(frac \div 100) + 1], DigitChars[((frac \div 10) % 10) + 1],
             DigitChars[(frac % 10) + 1]>>

\* out.replace(".", decimal_sep) if decimal_sep == "," else out
WithSeparator(out, decimal_sep) ==
    IF decimal_sep = "," THEN Replace(out, ".", <<decimal_sep>>) ELSE out

\* random.choices(alphabet, k=k)
RECURSIVE Choices(_, _)
Choices(k, s) ==
    IF k = 0 THEN Drawn(<<>>, s)
    ELSE LET rest == Choices(k - 1, Step(s))
         IN  Drawn(<<Choice(Alphabet, s)>> \o rest.val, rest.rng)

\* _scrambled_token(min_len, max_len)
scrambled_token(min_len, max_len, s) ==
    LET lo == Max(1, min_len)
        hi == Max(lo, max_len)
    IN  Choices(RandInt(lo, hi, s), Step(s))

\* _mutate_string(base, min_len, max_len)
mutate_string(base, min_len, max_len, s) == scrambled_token(min_len, max_len, s)

\* the integer branch of _generate_value
GenerateInteger(c, s) ==
    LET allowed_ints == AllowedInts(c.allowed_values)
        low == IF c.min_value # NoValue THEN TruncToInt(c.min_value[1]) ELSE 0
        high0 == IF c.max_value # NoValue THEN TruncToInt(c.max_value[1])
                 ELSE Max(low + 1, 1000)
        high == IF low = high0 THEN low + 10 ELSE high0
        choice == Choice(allowed_ints, s)
        jitter == RandInt(-5, 5, Step(s))
    IN  IF allowed_ints # <<>>
        THEN Drawn(IntToStr(Max(low, Min(high, choice + jitter))), Step(Step(s)))
        ELSE Drawn(IntToStr(RandInt(low, high, s)), Step(s))

\* the float branch of _generate_value
GenerateFloat(c, decimal_sep, s) ==
    LET allowed_floats == AllowedNumbers(c.allowed_values)
        low == IF c.min_value # NoValue THEN c.min_value[1] ELSE 0
        high0 == IF c.max_value # NoValue THEN c.max_value[1] ELSE Max(low + 1000, 1000000)
        high == IF low = high0 THEN low + 1000 ELSE high0
        choice == Choice(allowed_floats, s)
        span == Max(100, ((high - low) * 5) \div 100)
        candidate == Max(low, Min(high, choice + Uniform(-span, span, Step(s))))
    IN  IF allowed_floats # <<>>
        THEN Drawn(WithSeparator(Format3(candidate), decimal_sep), Step(Step(s)))
        ELSE Drawn(WithSeparator(Format3(Uniform(low, high, s)), decimal_sep), Step(s))

\* the decimal branch of _generate_value
GenerateDecimal(c, decimal_sep, s) ==
    LET allowed_decimals == AllowedNumbers(c.allowed_values)
        low == IF c.min_value # NoValue THEN c.min_value[1] ELSE 0
        high0 == IF c.max_value # NoValue THEN c.max_value[1] ELSE 1000000
        high == IF low = high0 THEN low + 1000 ELSE high0
        choice == Choice(allowed_decimals, s)
        span == ((high - low) * 5) \div 100
        jittered == Min(high, Max(low, choice + Uniform(-span, span, Step(s))))
    IN  IF allowed_decimals # <<>>
        THEN Drawn(WithSeparator(Format3(jittered), decimal_sep), Step(Step(s)))
        ELSE Drawn(WithSeparator(Format3(low + ((high - low) * s) \div RngMod), decimal_sep),
                   Step(s))

\* t1 >= t2 on instants
NotBefore(t1, t2) == t1[1] > t2[1] \/ (t1[1] = t2[1] /\ t1[2] >= t2[2])

\* the date/datetime branch of _generate_value; clock is datetime.now()
GenerateDate(c, s, clock) ==
    LET default_start == PlusDays(clock, -365)
        default_end == clock
        start == IF c.date_min # <<>> THEN Instant(FromIsoFormat(c.date_min)) ELSE default_start
        end0 == IF c.date_max # <<>> THEN Instant(FromIsoFormat(c.date_max)) ELSE default_end
        end == IF NotBefore(start, end0) THEN PlusDays(start, 1) ELSE end0
        delta_seconds == SecondsBetween(start, end)
        offset == RandInt(0, Max(1, delta_seconds), s)
        sample_dt == DateTimeOf(PlusSeconds(start, offset))
    IN  Drawn(IF c.type = "date" THEN IsoDate(sample_dt) ELSE IsoDateTime(sample_dt), Step(s))

\* the string branch of _generate_value, which every other type falls to
GenerateString(c, s) ==
    LET candidate == Choice(c.allowed_values, s)
        min_len_a == OrDefault(c.min_length, Max(1, Len(candidate)))
        max_len_a == OrDefault(c.max_length, Max(min_len_a, Len(candidate) + 8))
        min_len == OrDefault(c.min_length, 8)
        max_len0 == OrDefault(c.max_length, Max(min_len + 8, 24))
        max_len == IF max_len0 < min_len THEN min_len ELSE max_len0
    IN  IF c.allowed_values # <<>>
        THEN mutate_string(candidate, min_len_a, max_len_a, Step(s))
        ELSE scrambled_token(min_len, max_len, s)

\* _generate_value as it would be with the test written "constraint.nullable and
\* random.random() < p": a field that is not nullable draws nothing for the null check
generate_value_nullable_first(c, decimal_sep, s, clock) ==
    LET p == null_probability(c)
        s1 == IF c.nullable THEN Step(s) ELSE s
    IN  IF c.nullable /\ RandomBelow(s, p.num, p.den) THEN Drawn(<<>>, s1)
        ELSE IF c.type = "boolean"
             THEN Drawn(Choice(<< <<"t", "r", "u", "e">>, <<"f", "a", "l", "s", "e">> >>, s1),
                        Step(s1))
        ELSE IF c.type = "integer" THEN GenerateInteger(c, s1)
        ELSE IF c.type = "float" THEN GenerateFloat(c, decimal_sep, s1)
        ELSE IF c.type = "decimal" THEN GenerateDecimal(c, decimal_sep, s1)
        ELSE IF c.type \in {"date", "datetime"} THEN GenerateDate(c, s1, clock)
        ELSE GenerateString(c, s1)

\* _generate_value(constraint, decimal_sep), reading the stream at s and the clock
generate_value(c, decimal_sep, s, clock) ==
    LET p == null_probability(c)
        s1 == Step(s)
    IN  IF RandomBelow(s, p.num, p.den) /\ c.nullable THEN Drawn(<<>>, s1)
        ELSE IF c.type = "boolean"
             THEN Drawn(Choice(<< <<"t", "r", "u", "e">>, <<"f", "a", "l", "s", "e">> >>, s1),
                        Step(s1))
        ELSE IF c.type = "integer" THEN GenerateInteger(c, s1)
        ELSE IF c.type = "float" THEN GenerateFloat(c, decimal_sep, s1)
        ELSE IF c.type = "decimal" THEN GenerateDecimal(c, decimal_sep, s1)
        ELSE IF c.type \in {"date", "datetime"} THEN GenerateDate(c, s1, clock)
        ELSE GenerateString(c, s1)

\* a value followed by the values drawn after it
Followed(val, rest) == Drawn(<<val>> \o rest.val, rest.rng)

\* the cell of field k followed by the cells of the fields after it
RECURSIVE RowAfter(_, _, _, _, _)

\* [_generate_value(c, decimal_sep=decimal_sep) for c in constraints], from field k on
RECURSIVE GenerateRow(_, _, _, _, _)
GenerateRow(fields, k, decimal_sep, s, clock) ==
    IF k > Len(fields) THEN Drawn(<<>>, s)
    ELSE RowAfter(generate_value(fields[k], decimal_sep, s, clock), fields, k, decimal_sep,
                  clock)

RowAfter(cell, fields, k, decimal_sep, clock) ==
    Followed(cell.val, GenerateRow(fields, k + 1, decimal_sep, cell.rng, clock))

(***************************************************************************)
(* SynthesisEngine: generate_rows, profile_to_csv.  Two calls, A and B,    *)
(* are made on one caller-held ProfileResult.  A call advances one row at  *)
(* a time, as the generator generate_rows does between two yields: the     *)
(* first step runs the function from its entry to the first yield (the row *)
(* cap, the seeding, the first row), and the steps of the two calls may    *)
(* alternate in any order.  The two calls are made with the same rows and  *)
(* decimal_separator, and each with a seed of its own choice.              *)
(***************************************************************************)

Calls == {"A", "B"}

Other(c) == IF c = "A" THEN "B" ELSE "A"

\* the seeds the calls draw from are 1..MaxSeed
MaxSeed == 2

\* the clock advances at most MaxTicks times
MaxTicks == 1

\* the state the generator is in before any call seeds it
InitialRng == 11

\* 2024-03-01 10:00:00
ClockStart == Instant(<<2024, 3, 1, 10, 0, 0>>)

\* FieldConstraint with its defaults (app/models.py)
FieldDefaults ==
    [ name           |-> <<"f">>,
      type           |-> "string",
      nullable       |-> FALSE,
      min_length     |-> NoValue,
      max_length     |-> NoValue,
      min_value      |-> NoValue,
      max_value      |-> NoValue,
      allowed_values |-> <<>>,
      null_fraction  |-> [num |-> 0, den |-> 1],
      date_min       |-> <<>>,
      date_max       |-> <<>> ]

\* ProfileResult(fields=..., delimiter=..., decimal_separator=...)
ProfileOf(fields, delimiter, decimal_separator) ==
    [fields |-> fields, delimiter |-> delimiter, decimal_separator |-> decimal_separator]

\* the profiles of the bounded calls
SynthProfiles ==
    { \* basic_profile() of tests/test_synth.py
      ProfileOf(<< [FieldDefaults EXCEPT !.name = <<"n", "a", "m", "e">>, !.nullable = TRUE,
                        !.min_length = Some(3), !.max_length = Some(5),
                        !.null_fraction = [num |-> 4, den |-> 5]],
                   [FieldDefaults EXCEPT !.name = <<"a", "g", "e">>, !.type = "integer",
                        !.min_value = Some(18000), !.max_value = Some(21000)] >>, ",", "."),
      \* a string column profiled from the values K7 and F
      ProfileOf(<< [FieldDefaults EXCEPT !.name = <<"s">>, !.min_length = Some(1),
                        !.max_length = Some(2),
                        !.allowed_values = << <<"F">>, <<"K", "7">> >>] >>, ",", "."),
      \* the integer profile of tests/test_synth.py, and a boolean
      ProfileOf(<< [FieldDefaults EXCEPT !.name = <<"s", "c", "o", "r", "e">>, !.type = "integer",
                        !.min_value = Some(10000), !.max_value = Some(20000),
                        !.allowed_values = << <<"1", "1">>, <<"1", "5">>, <<"1", "9">> >>],
                   [FieldDefaults EXCEPT !.name = <<"o", "k">>, !.type = "boolean",
                        !.nullable = TRUE, !.null_fraction = [num |-> 1, den |-> 2]] >>, ";", "."),
      \* an integer column of one value, empty in every sampled row but one
      ProfileOf(<< [FieldDefaults EXCEPT !.name = <<"k">>, !.type = "integer", !.nullable = TRUE,
                        !.min_value = Some(5000), !.max_value = Some(5000),
                        !.null_fraction = [num |-> 19, den |-> 20]] >>, ",", "."),
      \* the decimal and date profile of tests/test_synth.py, comma as decimal mark
      ProfileOf(<< [FieldDefaults EXCEPT !.name = <<"a", "m", "o", "u", "n", "t">>,
                        !.type = "decimal",
                        !.min_value = Some(1100), !.max_value = Some(2200),
                        !.allowed_values = << <<"1", ".", "5">>, <<"2", ".", "0">> >>],
                   [FieldDefaults EXCEPT !.name = <<"w", "h", "e", "n">>, !.type = "date",
                        !.date_min = <<"2", "0", "2", "4", "-", "0", "1", "-", "0", "1">>,
                        !.date_max = <<"2", "0", "2", "4", "-", "0", "1", "-", "1", "0">>] >>,
                ";", ","),
      \* the float profile of tests/test_synth.py
      ProfileOf(<< [FieldDefaults EXCEPT !.name = <<"r", "a", "t", "i", "o">>, !.type = "float",
                        !.min_value = Some(500), !.max_value = Some(1500),
                        !.allowed_values = << <<"0", ".", "9">>, <<"1", ".", "2">> >>] >>,
                ",", "."),
      \* a datetime column without bounds
      ProfileOf(<< [FieldDefaults EXCEPT !.name = <<"t", "s">>, !.type = "datetime"] >>,
                ",", "."),
      \* a decimal column without bounds or values, and a column that was always empty
      ProfileOf(<< [FieldDefaults EXCEPT !.name = <<"p">>, !.type = "decimal"],
                   [FieldDefaults EXCEPT !.name = <<"e">>, !.type = "empty", !.nullable = TRUE,
                        !.max_length = Some(0), !.null_fraction = [num |-> 1, den |-> 1]] >>,
                ",", "."),
      \* an integer column as profiled from the cells 3, 4 and 1.5
      ProfileOf(<< [FieldDefaults EXCEPT !.name = <<"q">>, !.type = "integer",
                        !.min_length = Some(1), !.max_length = Some(3),
                        !.min_value = Some(1500), !.max_value = Some(4000),
                        !.allowed_values = << <<"1", ".", "5">>, <<"3">>, <<"4">> >>] >>,
                ",", ".") }

\* the arguments a call can be made with: rows and decimal_separator, which the two
\* calls share, and seed, which each call chooses
RowRequests == 0..(MAX_ROWS + MaxExtraRows)

SeedArguments == {NoValue} \cup {Some(sd) : sd \in 1..MaxSeed}

SeparatorArguments == {None, ".", ","}

IdleCall ==
    [ pc |-> "idle", rows |-> 0, seed |-> NoValue, decimal_separator |-> None,
      generated |-> <<>>, data |-> <<>> ]

\* before the two calls: one of the bounded profiles, the arguments, the generator
\* unseeded and the clock at ClockStart; no profiling runs
SynthInit ==
    /\ profile \in SynthProfiles
    /\ request \in [rows : RowRequests, decimal_separator : SeparatorArguments]
    /\ rng = InitialRng
    /\ now = ClockStart
    /\ ticks = 0
    /\ call = [c \in Calls |-> IdleCall]
    /\ overlapped = FALSE
    /\ headers = <<>> /\ parse_mode = "fast" /\ text_rows = 0 /\ rows = <<>> /\ idx = 0
    /\ stats = <<>> /\ decimal_separators = {} /\ pc = "idle"
    /\ result = NoResult /\ error = None

\* getattr(profile, "decimal_separator", ".") or "."
ProfileSeparator(p) == IF p.decimal_separator \in {None, ""} THEN "." ELSE p.decimal_separator

\* generate_rows as it would be with random.seed(seed) ahead of the row cap
SeedThenRaise(c) ==
    /\ call[c].pc = "idle"
    /\ request.rows > MAX_ROWS
    /\ \E sd \in SeedArguments :
          /\ call' = [call EXCEPT ![c] = [@ EXCEPT !.pc = "raised", !.rows = request.rows,
                                                  !.seed = sd,
                                                  !.decimal_separator =
                                                      request.decimal_separator]]
          /\ rng' = IF sd # NoValue THEN Seeded(sd[1]) ELSE rng
    /\ overlapped' = (overlapped \/ call[Other(c)].pc = "running")
    /\ UNCHANGED pvars
    /\ UNCHANGED <<profile, request, now, ticks>>

\* the call is made with rows > MAX_ROWS: generate_rows raises at its entry
StartAndRaise(c) ==
    /\ call[c].pc = "idle"
    /\ request.rows > MAX_ROWS
    /\ \E sd \in SeedArguments :
          call' = [call EXCEPT ![c] = [@ EXCEPT !.pc = "raised", !.rows = request.rows,
                                               !.seed = sd,
                                               !.decimal_separator = request.decimal_separator]]
    /\ overlapped' = (overlapped \/ call[Other(c)].pc = "running")
    /\ UNCHANGED pvars
    /\ UNCHANGED <<profile, request, rng, now, ticks>>

\* the call is made: generate_rows runs from its entry to its first yield, or to
\* its end when no row is asked for
Start(c) ==
    /\ call[c].pc = "idle"
    /\ request.rows <= MAX_ROWS
    /\ \E sd \in SeedArguments :
      \E s0 \in {IF sd # NoValue THEN Seeded(sd[1]) ELSE rng} :
        \E row \in {GenerateRow(profile.fields, 1, ProfileSeparator(profile), s0, now)} :
          /\ rng' = IF request.rows > 0 THEN row.rng ELSE s0
          /\ call' = [call EXCEPT ![c] =
                         [@ EXCEPT !.pc = "running", !.rows = request.rows, !.seed = sd,
                                   !.decimal_separator = request.decimal_separator,
                                   !.generated = IF request.rows > 0 THEN <<row.val>>
                                                 ELSE <<>>]]
    /\ overlapped' = (overlapped \/ call[Other(c)].pc = "running")
    /\ UNCHANGED pvars
    /\ UNCHANGED <<profile, request, now, ticks>>

\* generate_rows is resumed and yields its next row
NextRow(c) ==
    /\ call[c].pc = "running"
    /\ Len(call[c].generated) < call[c].rows
    /\ \E row \in {GenerateRow(profile.fields, 1, ProfileSeparator(profile), rng, now)} :
          /\ rng' = row.rng
          /\ call' = [call EXCEPT ![c].generated = Append(@, row.val)]
    /\ UNCHANGED pvars
    /\ UNCHANGED <<profile, request, now, ticks, overlapped>>

\* csv.writer with the default dialect: a field is quoted when it holds the delimiter,
\* a quote or a line break, and when it is the empty only field of its row
WriteField(field, delimiter, only) ==
    IF Contains(field, delimiter) \/ Contains(field, "\"") \/ Contains(field, "\n")
       \/ Contains(field, "\r") \/ (only /\ field = <<>>)
    THEN <<"\"">> \o Replace(field, "\"", <<"\"", "\"">>) \o <<"\"">>
    ELSE field

\* writer.writerow(row)
RECURSIVE WriteRow(_, _, _)
WriteRow(row, delimiter, k) ==
    IF k > Len(row) THEN <<"\r", "\n">>
    ELSE (IF k > 1 THEN <<delimiter>> ELSE <<>>)
         \o WriteField(row[k], delimiter, Len(row) = 1) \o WriteRow(row, delimiter, k + 1)

RECURSIVE WriteRows(_, _)
WriteRows(rs, delimiter) ==
    IF rs = <<>> THEN <<>>
    ELSE WriteRow(Head(rs), delimiter, 1) \o WriteRows(Tail(rs), delimiter)

\* decimal_separator or getattr(profile, "decimal_separator", ".") or "."
ResolvedSeparator(p, decimal_separator) ==
    IF decimal_separator \in {None, ""} THEN ProfileSeparator(p) ELSE decimal_separator

\* the text profile_to_csv returns for the rows generated (encoding it is one to one)
CsvText(p, decimal_separator, generated) ==
    LET names == [k \in 1..Len(p.fields) |-> p.fields[k].name]
        text == WriteRow(names, p.delimiter, 1) \o WriteRows(generated, p.delimiter)
        dec_sep == ResolvedSeparator(p, decimal_separator)
    IN  IF dec_sep # "." THEN Replace(text, ".", <<dec_sep>>) ELSE text

\* generate_rows is exhausted and profile_to_csv returns
Finish(c) ==
    /\ call[c].pc = "running"
    /\ Len(call[c].generated) = call[c].rows
    /\ call' = [call EXCEPT ![c] =
                   [@ EXCEPT !.pc = "returned",
                             !.data = CsvText(profile, call[c].decimal_separator,
                                               call[c].generated)]]
    /\ UNCHANGED pvars
    /\ UNCHANGED <<profile, request, rng, now, ticks, overlapped>>

\* time passes: a second or a day
Tick ==
    /\ ticks < MaxTicks
    /\ \E d \in {1, 86400} : now' = PlusSeconds(now, d)
    /\ ticks' = ticks + 1
    /\ UNCHANGED pvars
    /\ UNCHANGED <<profile, request, rng, call, overlapped>>

SynthNext ==
    \/ \E c \in Calls : StartAndRaise(c)
    \/ \E c \in Calls : Start(c)
    \/ \E c \in Calls : NextRow(c)
    \/ \E c \in Calls : Finish(c)
    \/ Tick

(***************************************************************************)
(* Specifications                                                          *)
(***************************************************************************)
\* one run of profile_from_text on a bounded text
Spec == Init /\ [][Next]_vars

\* two calls of profile_to_csv on one bounded profile
SynthSpec == SynthInit /\ [][SynthNext]_vars

(***************************************************************************)
(* Claims about the profiling engine.  They are stated over the text read  *)
(* (headers, rows, text_rows), not over the accumulators.                  *)
(***************************************************************************)
Columns == 1..Len(headers)

\* the cells of column k of the text, in the rows fed to the accumulators
ColumnCells(k) == [i \in 1..Len(rows) |-> rows[i][k]]

\* no column name occurs twice in the header row
NoRepeatedName == \A j, k \in Columns : headers[j] = headers[k] => j = k

\* the number of those cells that are empty
EmptyCells(k) == Cardinality({i \in 1..Len(rows) : ColumnCells(k)[i] = <<>>})

\* the number of those cells classified as t
Occurrences(k, t) == Cardinality({i \in 1..Len(rows) : detect_type(ColumnCells(k)[i]) = t})

\* the non-empty types seen in column k
SeenTypes(k) == {t \in FieldTypeSet \ {"empty"} : Occurrences(k, t) > 0}

\* the non-empty types of greatest count in column k
MostFrequentTypes(k) ==
    {t \in SeenTypes(k) : \A u \in SeenTypes(k) : Occurrences(k, u) <= Occurrences(k, t)}

\* the row of the first cell of column k classified as t
FirstSeen(k, t) ==
    CHOOSE i \in 1..Len(rows) :
        /\ detect_type(ColumnCells(k)[i]) = t
        /\ \A j \in 1..(i - 1) : detect_type(ColumnCells(k)[j]) # t

\* the distinct non-empty raw values of column k
DistinctValues(k) == {ColumnCells(k)[i] : i \in 1..Len(rows)} \ {<<>>}

Terminated == pc \in {"returned", "raised"}

\* C3: a text with more than MAX_ROWS data rows fails with RowLimitExceeded and
\* returns no ProfileResult, in fast mode and in strict mode alike.
C3_RowCapInEitherMode ==
    (Terminated /\ text_rows > MAX_ROWS) =>
        (pc = "raised" /\ error = "RowLimitExceeded" /\ result = NoResult)

\* C4: a column with more distinct non-empty values than the ceiling gets no
\* allowed_values, while its lengths are those of all the sampled cells.  (Stated for
\* header rows without a repeated name.)
C4_AllowedValuesDroppedAboveCap ==
    (pc = "returned" /\ NoRepeatedName) =>
        \A k \in Columns :
            Cardinality(DistinctValues(k)) >= ALLOWED_VALUES_CAP + 1 =>
                /\ result.fields[k].allowed_values = <<>>
                /\ result.fields[k].max_length =
                       Some(CHOOSE n \in {Len(v) : v \in DistinctValues(k)} :
                                \A v \in DistinctValues(k) : Len(v) <= n)

\* the row_count the specification gives a text of text_rows rows
ExpectedRowCount ==
    IF parse_mode = "fast" THEN Min(text_rows, FAST_SAMPLE_ROWS) ELSE text_rows

\* C5: for a text of N <= MAX_ROWS data rows profile_from_text returns row_count = N
\* in strict mode and min(N, FAST_SAMPLE_ROWS) in fast mode, N = 0 included.  (Stated
\* apart from the runs that end in the ValidationError of a repeated column name.)
C5_RowCountOfEveryText ==
    (Terminated /\ text_rows <= MAX_ROWS /\ error # "ValidationError") =>
        (pc = "returned" /\ result.row_count = ExpectedRowCount)

\* C6: the final type of a column is a non-empty type of greatest count among its
\* sampled cells, and "empty" exactly when it has no non-empty sampled cell.
C6_FinalTypeIsMostFrequent ==
    pc = "returned" =>
        \A k \in Columns :
            IF SeenTypes(k) = {} THEN result.fields[k].type = "empty"
            ELSE result.fields[k].type \in MostFrequentTypes(k)

\* C7: when several types share the greatest count, the final type is the one of
\* them seen first in the scan of the column.  (Stated for header rows without a
\* repeated name.)
C7_TieBrokenByFirstSeen ==
    (pc = "returned" /\ NoRepeatedName) =>
        \A k \in Columns :
            SeenTypes(k) # {} =>
                \A t \in MostFrequentTypes(k) :
                    FirstSeen(k, result.fields[k].type) <= FirstSeen(k, t)

\* C8: in a returned ProfileResult with row_count > 0 the null_fraction of a field is
\* (sampled rows whose cell is empty) / row_count, within [0,1], and nullable holds
\* iff there is such a row.
C8_NullStatisticsExact ==
    (pc = "returned" /\ result.row_count > 0) =>
        \A k \in Columns :
            LET f == result.fields[k]
            IN  /\ f.null_fraction.num * result.row_count = EmptyCells(k) * f.null_fraction.den
                /\ 0 <= f.null_fraction.num /\ f.null_fraction.num <= f.null_fraction.den
                /\ f.nullable <=> (EmptyCells(k) >= 1)

\* C13: in a returned ProfileResult a field has min_value or max_value only if its
\* final type is integer, float or decimal, and date_min or date_max only if its
\* final type is date or datetime.
C13_BoundsOnlyForMatchingTypes ==
    pc = "returned" =>
        \A k \in 1..Len(result.fields) :
            /\ (result.fields[k].min_value # NoValue \/ result.fields[k].max_value # NoValue)
                   => result.fields[k].type \in {"integer", "float", "decimal"}
            /\ (result.fields[k].date_min # <<>> \/ result.fields[k].date_max # <<>>)
                   => result.fields[k].type \in {"date", "datetime"}

\* the number of times an accumulator has been updated: each update counts one type
RECURSIVE CountsFrom(_, _)
CountsFrom(type_counts, i) ==
    IF i > Len(FieldTypes) THEN 0
    ELSE type_counts[FieldTypes[i]] + CountsFrom(type_counts, i + 1)

\* C14: for any header row, one that repeats a name included, the field names of the
\* returned ProfileResult are pairwise distinct and in header order, and each column's
\* accumulator is updated exactly once per sampled data row.
C14_DistinctNamesOneUpdatePerRow ==
    /\ \A h \in DOMAIN stats : CountsFrom(stats[h].type_counts, 1) = Len(rows)
    /\ pc = "returned" =>
          /\ Len(result.fields) = Len(headers)
          /\ \A k \in Columns : result.fields[k].name = headers[k]
          /\ \A j, k \in Columns : j # k => result.fields[j].name # result.fields[k].name

\* C16: for a column whose final type is integer, every sampled non-empty cell that
\* is a base-10 integer literal, 0 and 1 included, has its value within the recorded
\* min_value and max_value.  (Stated for header rows without a repeated name.)
C16_IntegerBoundsCoverCells ==
    (pc = "returned" /\ NoRepeatedName) =>
        \A k \in Columns :
            result.fields[k].type = "integer" =>
                \A i \in 1..Len(rows) :
                    IsIntLiteral(Strip(ColumnCells(k)[i])) =>
                        /\ result.fields[k].min_value # NoValue
                        /\ result.fields[k].max_value # NoValue
                        /\ result.fields[k].min_value[1]
                               <= 1000 * IntLiteralVal(Strip(ColumnCells(k)[i]))
                        /\ 1000 * IntLiteralVal(Strip(ColumnCells(k)[i]))
                               <= result.fields[k].max_value[1]


(***************************************************************************)
(* Claims about the synthesis engine.  They are stated over the bytes a    *)
(* call returns (data), read back as rows of cells.                        *)
(***************************************************************************)
\* the rows of cells a csv reader with the default dialect reads from text
RECURSIVE ReadCsv(_, _, _, _, _, _)
ReadCsv(text, delimiter, i, quoted, field, row) ==
    IF i > Len(text) THEN <<>>
    ELSE IF quoted
    THEN IF text[i] # "\""
         THEN ReadCsv(text, delimiter, i + 1, TRUE, Append(field, text[i]), row)
         ELSE IF i < Len(text) /\ text[i + 1] = "\""
         THEN ReadCsv(text, delimiter, i + 2, TRUE, Append(field, "\""), row)
         ELSE ReadCsv(text, delimiter, i + 1, FALSE, field, row)
    ELSE IF text[i] = "\"" THEN ReadCsv(text, delimiter, i + 1, TRUE, field, row)
    ELSE IF text[i] = delimiter
    THEN ReadCsv(text, delimiter, i + 1, FALSE, <<>>, Append(row, field))
    ELSE IF text[i] = "\r" THEN ReadCsv(text, delimiter, i + 1, FALSE, field, row)
    ELSE IF text[i] = "\n"
    THEN <<Append(row, field)>> \o ReadCsv(text, delimiter, i + 1, FALSE, <<>>, <<>>)
    ELSE ReadCsv(text, delimiter, i + 1, FALSE, Append(field, text[i]), row)

\* the data rows of the output of call c: the rows after the header row
OutputRows(c) == Tail(ReadCsv(call[c].data, profile.delimiter, 1, FALSE, <<>>, <<>>))

Returned(c) == call[c].pc = "returned"

Fields == 1..Len(profile.fields)

\* a date or datetime field without both bounds takes its window from datetime.now()
UsesClock(p) ==
    \E k \in 1..Len(p.fields) :
        /\ p.fields[k].type \in {"date", "datetime"}
        /\ (p.fields[k].date_min = <<>> \/ p.fields[k].date_max = <<>>)

\* C1: two calls of profile_to_csv(P, N, seed=S) with the same P, N and S, made one
\* after the other, return the same bytes, whatever time passes between them.
C1_SameSeedSameOutput ==
    ( /\ Returned("A") /\ Returned("B")
      /\ ~overlapped
      /\ call["A"].seed # NoValue
      /\ call["A"].seed = call["B"].seed
      /\ call["A"].rows = call["B"].rows
      /\ call["A"].decimal_separator = call["B"].decimal_separator )
    => call["A"].data = call["B"].data

\* C2: no non-empty cell of a string field in the output equals an entry of the
\* field's allowed_values.
C2_StringCellsNeverOriginal ==
    \A c \in Calls :
        Returned(c) =>
            \A i \in 1..Len(OutputRows(c)), k \in Fields :
                ( /\ profile.fields[k].type = "string"
                  /\ k <= Len(OutputRows(c)[i])
                  /\ OutputRows(c)[i][k] # <<>> )
                => \A j \in 1..Len(profile.fields[k].allowed_values) :
                       OutputRows(c)[i][k] # profile.fields[k].allowed_values[j]

\* the decimal mark that is not d
OtherMark(d) == IF d = "." THEN "," ELSE "."

\* C9: when the call is made with decimal_separator d in {".", ","}, every non-empty
\* float or decimal cell of the output has d as its decimal mark, and not the other.
\* Outputs delimited by d itself are left out: read back, their cells split at the mark.
C9_OverrideRendersNumericCells ==
    \A c \in Calls :
        ( /\ Returned(c)
          /\ call[c].decimal_separator \in {".", ","}
          /\ call[c].decimal_separator # profile.delimiter ) =>
            \A i \in 1..Len(OutputRows(c)), k \in Fields :
                ( /\ profile.fields[k].type \in {"float", "decimal"}
                  /\ k <= Len(OutputRows(c)[i])
                  /\ OutputRows(c)[i][k] # <<>> )
                => /\ Contains(OutputRows(c)[i][k], call[c].decimal_separator)
                   /\ ~Contains(OutputRows(c)[i][k], OtherMark(call[c].decimal_separator))

\* the rows generate_rows yields from stream state s when nothing else draws from it
RECURSIVE RowsAlone(_, _, _, _)
RowsAlone(p, n, s, clock) ==
    IF n = 0 THEN <<>>
    ELSE <<GenerateRow(p.fields, 1, ProfileSeparator(p), s, clock).val>>
         \o RowsAlone(p, n - 1, GenerateRow(p.fields, 1, ProfileSeparator(p), s, clock).rng,
                      clock)

\* the bytes a seeded call returns when it runs alone
OutputAlone(p, n, seed, decimal_separator, clock) ==
    CsvText(p, decimal_separator, RowsAlone(p, n, Seeded(seed), clock))

\* C10: when both calls are seeded, each returns what it returns when run alone with
\* the same profile, rows and seed, however the row generation of the other call is
\* interleaved with it.  Profiles that read the clock are left out: their output moves
\* with time alone.
C10_InterleavingDoesNotInterfere ==
    \A c \in Calls :
        ( /\ Returned(c)
          /\ call[c].seed # NoValue
          /\ call[Other(c)].pc # "idle" => call[Other(c)].seed # NoValue
          /\ ~UsesClock(profile) ) =>
            call[c].data = OutputAlone(profile, call[c].rows, call[c].seed[1],
                                       call[c].decimal_separator, now)

\* C11: a call fails with the row limit error exactly when rows > MAX_ROWS, at its
\* entry, and rows = MAX_ROWS is generated in full; the failing call leaves the shared
\* random stream as it found it, neither seeded nor advanced.
C11_RowCapBeforeSeeding ==
    [][\A c \in Calls :
          /\ (call[c].pc = "idle" /\ call'[c].pc # "idle") =>
                 IF call'[c].rows > MAX_ROWS
                 THEN call'[c].pc = "raised" /\ rng' = rng
                 ELSE call'[c].pc = "running"
          /\ (call[c].pc # "idle" /\ call'[c].pc = "raised") => call[c].pc = "raised"
          /\ call'[c].pc = "returned" =>
                 /\ call'[c].rows <= MAX_ROWS
                 /\ Len(call'[c].generated) = call'[c].rows]_vars

\* C11 witness: a call made with a seed and MAX_ROWS + 1 rows has failed, and the
\* stream is in the state it had before any call.
C11_Witness ==
    \E c \in Calls :
        /\ call[c].pc = "raised"
        /\ call[c].seed # NoValue
        /\ call[c].rows = MAX_ROWS + 1
        /\ rng = InitialRng

\* the cells generated so far for field k, over both calls
GeneratedCells(k) ==
    UNION {{call[c].generated[i][k] : i \in 1..Len(call[c].generated)} : c \in Calls}

\* C12: for an integer field with min_value <= max_value both set, every non-empty
\* generated cell is a base-10 integer v with min_value <= v <= max_value when
\* min_value < max_value, and min_value <= v <= min_value + 10 when they are equal.
C12_BoundedIntegerCells ==
    \A k \in Fields :
        ( /\ profile.fields[k].type = "integer"
          /\ profile.fields[k].min_value # NoValue
          /\ profile.fields[k].max_value # NoValue
          /\ profile.fields[k].min_value[1] <= profile.fields[k].max_value[1] ) =>
            \A cell \in GeneratedCells(k) \ {<<>>} :
                /\ IsIntLiteral(cell)
                /\ profile.fields[k].min_value[1] <= 1000 * IntLiteralVal(cell)
                /\ 1000 * IntLiteralVal(cell) <=
                       IF profile.fields[k].min_value[1] < profile.fields[k].max_value[1]
                       THEN profile.fields[k].max_value[1]
                       ELSE profile.fields[k].min_value[1] + 10000

\* the stream state after n draws from state s
RECURSIVE Steps(_, _)
Steps(s, n) == IF n = 0 THEN s ELSE Steps(Step(s), n - 1)

\* the draws the value of a non-empty cell of field f takes after the null check
ValueDraws(f, cell) ==
    IF f.type \in {"boolean", "date", "datetime"} THEN 1
    ELSE IF f.type = "integer" THEN (IF AllowedInts(f.allowed_values) # <<>> THEN 2 ELSE 1)
    ELSE IF f.type \in {"float", "decimal"}
    THEN (IF AllowedNumbers(f.allowed_values) # <<>> THEN 2 ELSE 1)
    ELSE (IF f.allowed_values # <<>> THEN 2 ELSE 1) + Len(cell)

\* the draws of the cells of row before position k, each with one draw for its null
\* check
RECURSIVE DrawsBefore(_, _)
DrawsBefore(row, k) ==
    IF k = 1 THEN 0
    ELSE DrawsBefore(row, k - 1) + 1
         + (IF row[k - 1] = <<>> THEN 0 ELSE ValueDraws(profile.fields[k - 1], row[k - 1]))

\* the draw s / RngMod is below min(null_fraction, 0.9) of field f
BelowNullProbability(f, s) ==
    /\ s * f.null_fraction.den < f.null_fraction.num * RngMod
    /\ s * 10 < 9 * RngMod

\* C15: a generated cell is empty iff its field is nullable and the first draw taken
\* for the cell is below min(null_fraction, 0.9); the null check takes exactly one draw
\* whether or not the field is nullable, so that each cell's first draw and the state
\* the row leaves follow from the cells before it.
C15_NullCheckTakesOneDraw ==
    [][\A c \in Calls :
          Len(call'[c].generated) = Len(call[c].generated) + 1 =>
              LET row == call'[c].generated[Len(call'[c].generated)]
                  s0 == IF call[c].pc = "idle" /\ call'[c].seed # NoValue
                        THEN Seeded(call'[c].seed[1]) ELSE rng
              IN  /\ \A k \in Fields :
                         row[k] = <<>> <=>
                             /\ profile.fields[k].nullable
                             /\ BelowNullProbability(profile.fields[k],
                                                     Steps(s0, DrawsBefore(row, k)))
                  /\ rng' = Steps(s0, DrawsBefore(row, Len(row) + 1))]_vars

\* C15 witness: a nullable field has generated an empty cell and a non-empty one, in
\* rows that also hold the cells of a field that is not nullable.
C15_Witness ==
    \E k \in Fields :
        /\ profile.fields[k].nullable
        /\ <<>> \in GeneratedCells(k)
        /\ GeneratedCells(k) \ {<<>>} # {}
        /\ \E j \in Fields : j # k /\ ~profile.fields[j].nullable /\ GeneratedCells(j) # {}
====
